---- MODULE Spec2Model ----
(***************************************************************************)
(* jsondb (src/jsondb.go): a key-value store kept in memory as             *)
(* map[string]json.RawMessage and persisted as one JSON document.          *)
(*                                                                         *)
(* Bytes are modelled as one-character strings, a []byte as a sequence of  *)
(* them.  The JSON handled is the subset the model produces: the literal   *)
(* null, unsigned integers, strings, insignificant blanks, and, for the    *)
(* backing file, one top-level object whose members are such scalars.      *)
(***************************************************************************)
EXTENDS Naturals, Sequences, FiniteSets, TLC

\* ---------------------------------------------------------------- bounds
\* Values handed to Set include the integers 1..MaxNum.
MaxNum == 1
\* Payloads handed to SetRaw include a number padded with 1..MaxPad blanks.
MaxPad == 1

\* ----------------------------------------------------------------- bytes
Quote == "\""
\* One element stands for the six bytes of the escape that encoding/json
\* writes for the byte '<' inside a string.
EscLt == "\\u003c"
NullLit == <<"n", "u", "l", "l">>
DigitChars == <<"0", "1", "2", "3", "4", "5", "6", "7", "8", "9">>
Digits == {DigitChars[i] : i \in 1..10}
DigitVal(c) == (CHOOSE i \in 1..10 : DigitChars[i] = c) - 1

\* json.RawMessage(nil): a nil slice, distinct from every byte sequence
\* (no byte is the three-character element).
NilRaw == <<"nil">>

\* ---------------------------------------------------------------- errors
Nil == "nil"
ErrNotFound == "ErrNotFound"
ErrJSON == "ErrJSON"
ErrSync == "ErrSync"
ErrOpenFile == "failed to open/create db file"
ErrAbs == "failed to get absolute file path"
ErrRead == "failed to read db file"
ErrWriteNew == "failed write new db"
ErrContent == "db content is not valid JSON"

OptSync == "OptSync"

\* ---------------------------------------------------------------- values
\* A Go value as Set receives it and as Get leaves it in an interface-typed
\* destination: nil, a number, a string, or a value with no JSON encoding
\* (a channel).
Null == [t |-> "null", n |-> 0, s |-> <<>>]
Num(n) == [t |-> "num", n |-> n, s |-> <<>>]
Str(s) == [t |-> "str", n |-> 0, s |-> s]
Chan == [t |-> "chan", n |-> 0, s |-> <<>>]

\* ----------------------------------------------------------- JSON scanner
RECURSIVE SkipWs(_, _)
\* The first index >= i of s that holds no blank.
SkipWs(s, i) ==
    IF i <= Len(s) /\ s[i] = " " THEN SkipWs(s, i + 1) ELSE i

HasAt(s, i, t) ==
    /\ i + Len(t) - 1 <= Len(s)
    /\ SubSeq(s, i, i + Len(t) - 1) = t

RECURSIVE ScanDigits(_, _)
ScanDigits(s, i) ==
    IF i <= Len(s) /\ s[i] \in Digits THEN ScanDigits(s, i + 1) ELSE i

RECURSIVE ScanString(_, _)
\* i follows an opening quote: the index after the closing quote, 0 if none.
ScanString(s, i) ==
    IF i > Len(s) THEN 0
    ELSE IF s[i] = Quote THEN i + 1
    ELSE ScanString(s, i + 1)

\* The index after the scalar that starts at i, 0 when none starts there.
ScanValue(s, i) ==
    IF i > Len(s) THEN 0
    ELSE IF HasAt(s, i, NullLit) THEN i + 4
    ELSE IF s[i] = "0" THEN i + 1
    ELSE IF s[i] \in Digits THEN ScanDigits(s, i + 1)
    ELSE IF s[i] = Quote THEN ScanString(s, i + 1)
    ELSE 0

\* Whether s is one JSON value, blanks around it allowed.
ValidJSON(s) ==
    LET b == SkipWs(s, 1)
        e == ScanValue(s, b)
    IN  e # 0 /\ SkipWs(s, e) = Len(s) + 1

\* encoding/json's compaction of a valid value: the blanks around it are
\* dropped and '<' is written as its escape (escapeHTML).
Compact(s) ==
    LET b == SkipWs(s, 1)
        e == ScanValue(s, b)
        v == SubSeq(s, b, e - 1)
    IN  [i \in 1..Len(v) |-> IF v[i] = "<" THEN EscLt ELSE v[i]]

\* ------------------------------------------------------------------ codec
RECURSIVE DigitsOf(_)
DigitsOf(n) ==
    IF n < 10 THEN <<DigitChars[n + 1]>>
    ELSE DigitsOf(n \div 10) \o <<DigitChars[(n % 10) + 1]>>

RECURSIVE NumOf(_)
NumOf(ds) ==
    IF Len(ds) = 0 THEN 0
    ELSE 10 * NumOf(SubSeq(ds, 1, Len(ds) - 1)) + DigitVal(ds[Len(ds)])

\* sonic.Marshal(val): the bytes of a value, or an error for a value that
\* has no encoding.  Strings are written without HTML escaping.
Marshal(val) ==
    CASE val.t = "null" -> [err |-> Nil, raw |-> NullLit]
      [] val.t = "num" -> [err |-> Nil, raw |-> DigitsOf(val.n)]
      [] val.t = "str" -> [err |-> Nil, raw |-> <<Quote>> \o val.s \o <<Quote>>]
      [] OTHER -> [err |-> ErrJSON, raw |-> NilRaw]

\* The text of a string body, the escape read back as '<'.
Unescape(body) == [i \in 1..Len(body) |-> IF body[i] = EscLt THEN "<" ELSE body[i]]

\* sonic.Unmarshal(raw, val) into an interface-typed destination holding
\* dst: the destination afterwards, unchanged when the bytes do not decode.
Unmarshal(raw, dst) ==
    IF raw = NilRaw \/ ~ValidJSON(raw) THEN [err |-> ErrJSON, val |-> dst]
    ELSE LET c == Compact(raw)
         IN  IF c = NullLit THEN [err |-> Nil, val |-> Null]
             ELSE IF c[1] = Quote
                  THEN [err |-> Nil,
                        val |-> Str(Unescape(SubSeq(c, 2, Len(c) - 1)))]
                  ELSE [err |-> Nil, val |-> Num(NumOf(c))]

\* --------------------------------------------------------------- document
\* The keys callers use, in the order json.Marshal writes map keys (sorted).
KeyOrder == <<<<"a">>, <<"b">>>>
Keys == {KeyOrder[i] : i \in 1..Len(KeyOrder)}

NoData == [k \in {} |-> NilRaw]

\* MarshalRaw copying the payload as it is, without compaction.
MarshalRawVerbatim(raw) ==
    IF raw = NilRaw THEN [err |-> Nil, raw |-> NullLit]
    ELSE IF ~ValidJSON(raw) THEN [err |-> ErrJSON, raw |-> <<>>]
    ELSE [err |-> Nil, raw |-> raw]

\* RawMessage.MarshalJSON followed by the encoder's compaction of what it
\* returned: nil is written as null, bytes that are no JSON value fail.
MarshalRaw(raw) ==
    IF raw = NilRaw THEN [err |-> Nil, raw |-> NullLit]
    ELSE IF ~ValidJSON(raw) THEN [err |-> ErrJSON, raw |-> <<>>]
    ELSE [err |-> Nil, raw |-> Compact(raw)]

RECURSIVE MarshalMembers(_, _, _)
\* The members of data from the i-th key on; first tells whether none has
\* been written yet.
MarshalMembers(data, i, first) ==
    IF i > Len(KeyOrder) THEN <<>>
    ELSE IF KeyOrder[i] \notin DOMAIN data THEN MarshalMembers(data, i + 1, first)
    ELSE (IF first THEN <<>> ELSE <<",">>)
         \o <<Quote>> \o KeyOrder[i] \o <<Quote, ":">>
         \o MarshalRaw(data[KeyOrder[i]]).raw
         \o MarshalMembers(data, i + 1, FALSE)

\* json.Marshal(db.data).
MarshalMap(data) ==
    IF \E k \in DOMAIN data : MarshalRaw(data[k]).err # Nil
    THEN [err |-> ErrJSON, content |-> <<>>]
    ELSE [err |-> Nil,
          content |-> <<"{">> \o MarshalMembers(data, 1, TRUE) \o <<"}">>]

BadDoc == [ok |-> FALSE, data |-> NoData]

\* Whether only blanks follow index i - 1.
AtEnd(s, i) == SkipWs(s, i) = Len(s) + 1

RECURSIVE ParseMembers(_, _, _)
\* i is where a member's key must start; m holds the members read so far
\* (a key read again replaces the earlier payload).
ParseMembers(s, i, m) ==
    LET ke == IF i <= Len(s) /\ s[i] = Quote THEN ScanString(s, i + 1) ELSE 0
        key == Unescape(SubSeq(s, i + 1, ke - 2))
        col == SkipWs(s, ke)
        vb == SkipWs(s, col + 1)
        ve == ScanValue(s, vb)
        nxt == SkipWs(s, ve)
        m2 == [k \in DOMAIN m \cup {key} |->
                 IF k = key THEN SubSeq(s, vb, ve - 1) ELSE m[k]]
    IN  IF ke = 0 THEN BadDoc
        ELSE IF ~(col <= Len(s) /\ s[col] = ":") THEN BadDoc
        ELSE IF ve = 0 THEN BadDoc
        ELSE IF nxt > Len(s) THEN BadDoc
        ELSE IF s[nxt] = "}"
             THEN (IF AtEnd(s, nxt + 1) THEN [ok |-> TRUE, data |-> m2] ELSE BadDoc)
        ELSE IF s[nxt] = "," THEN ParseMembers(s, SkipWs(s, nxt + 1), m2)
        ELSE BadDoc

\* sonic.Unmarshal(content, &data) with data a map[string]json.RawMessage:
\* the content must be one object; each member's payload is kept as the
\* bytes found in the content.
ParseDoc(s) ==
    LET b == SkipWs(s, 1)
        f == SkipWs(s, b + 1)
    IN  IF ~(b <= Len(s) /\ s[b] = "{") THEN BadDoc
        ELSE IF f > Len(s) THEN BadDoc
        ELSE IF s[f] = "}"
             THEN (IF AtEnd(s, f + 1) THEN [ok |-> TRUE, data |-> NoData] ELSE BadDoc)
        ELSE ParseMembers(s, f, NoData)

\* strings.TrimSpace(string(content)) == "".
IsBlank(s) == SkipWs(s, 1) = Len(s) + 1

\* ------------------------------------------------------------------ state
VARIABLES
    opened,      \* whether Open has returned a DB that the caller holds
    opts,        \* db.opts, as the set of options passed to Open
    data,        \* db.data: key -> payload
    fileExists,  \* whether the backing file exists
    file,        \* the backing file's bytes (<<>> while it does not exist)
    last,        \* the call that returned last: its arguments and results
    hist         \* history, per key: how its entry last changed ("none",
                 \* "loaded" by Open, "saved" when that Open came right
                 \* after a successful Save, "set" with the value, "setfailed",
                 \* "raw", "deleted")

\* Threads calling into one DB (all idle while calls are made one at a time).
VARIABLES
    th,          \* per thread: the call it is in and how far it has got
    mu,          \* db.mu, the sync.RWMutex
    writing      \* the threads that are in the middle of changing db.data

cvars == <<th, mu, writing>>
vars == <<opened, opts, data, fileExists, file, last, hist, th, mu, writing>>

Threads == {"t1", "t2"}
NoThread == "none"

\* What a reader can be handed in place of a payload: nothing yet, no entry,
\* or whatever an unsynchronised read of a map under change produces.
NoObs == <<"unread">>
Absent == <<"absent">>
Torn == <<"torn">>

\* A thread outside every call.
IdleThread ==
    [op |-> "idle", key |-> <<>>, val |-> Null, arg |-> NilRaw, pc |-> "idle",
     got |-> NoObs, err |-> Nil, snap |-> <<>>, vis |-> "none", iter |-> FALSE,
     todo |-> <<>>, vgot |-> NoObs, cands |-> {}]

\* sync.RWMutex{}: w is the writer that has announced itself (it holds the
\* inner mutex and has made readerCount negative), held tells whether it
\* has got past the readers, r counts each thread's read locks.
FreeMu == [w |-> NoThread, held |-> FALSE, r |-> [t \in Threads |-> 0]]

\* What a caller passes in.
SetValues == {Null, Chan, Str(<<"<">>)} \cup {Num(n) : n \in 1..MaxNum}
Pad(n) == [i \in 1..n |-> " "]
RawInputs == {NilRaw, <<"x">>} \cup {Pad(n) \o <<"1">> : n \in 1..MaxPad}
Dests == {Null, Str(<<"x">>)}
OptSets == SUBSET {OptSync}

\* How the operating system answers a call: os.WriteFile either writes all
\* the bytes, or fails before touching the file, or fails after truncating it.
WriteOutcomes == {"written", "refused", "truncated"}
OpenFaults == {"none", "open", "abs", "read", "write"}
\* The outcomes a mutating call can meet: without OptSync it writes nothing.
OutcomesFor(o) == IF OptSync \in o THEN WriteOutcomes ELSE {"written"}

\* Files found at the path before the first Open: none, a blank one, one
\* that is no JSON, a document cut short after its first member, and a
\* document written by hand.
InitFiles ==
    { [exists |-> FALSE, bytes |-> <<>>],
      [exists |-> TRUE, bytes |-> <<" ">>],
      [exists |-> TRUE, bytes |-> <<"x">>],
      [exists |-> TRUE, bytes |-> <<"{", Quote, "a", Quote, ":", "1", ",">>],
      [exists |-> TRUE,
       bytes |-> <<"{", " ", Quote, "a", Quote, ":", " ", "1", " ", "}">>] }

\* A call's record: pre is the value passed in (Set's val, the content of
\* Get's destination before the call), out the destination afterwards, raw
\* the bytes GetRaw returned, seen the keys Iter handed to its visitor, in
\* order, and stop the keys at which that visitor returns an error.
Result(op, key, err) ==
    [op |-> op, key |-> key, err |-> err, pre |-> Null, out |-> Null,
     raw |-> NilRaw, seen |-> <<>>, stop |-> {}]

NoKey == <<>>
Untouched == [m |-> "none", v |-> Null]
Hist(m, v) == [m |-> m, v |-> v]

Init ==
    /\ opened = FALSE
    /\ opts = {}
    /\ data = NoData
    /\ \E f \in InitFiles : fileExists = f.exists /\ file = f.bytes
    /\ last = Result("Init", NoKey, Nil)
    /\ hist = [k \in Keys |-> Untouched]
    /\ th = [t \in Threads |-> IdleThread]
    /\ mu = FreeMu
    /\ writing = {}

\* ------------------------------------------------------------- operations
\* WriteFile opening the file to append instead of truncating it.
WriteFileAppend(exists, bytes, content, w) ==
    CASE w = "written" -> [err |-> Nil, exists |-> TRUE, bytes |-> bytes \o content]
      [] w = "refused" -> [err |-> ErrSync, exists |-> exists, bytes |-> bytes]
      [] OTHER -> [err |-> ErrSync, exists |-> TRUE, bytes |-> <<>>]

\* os.WriteFile(db.path, content, 0o755) under outcome w.
WriteFile(exists, bytes, content, w) ==
    CASE w = "written" -> [err |-> Nil, exists |-> TRUE, bytes |-> content]
      [] w = "refused" -> [err |-> ErrSync, exists |-> exists, bytes |-> bytes]
      [] OTHER -> [err |-> ErrSync, exists |-> TRUE, bytes |-> <<>>]

\* sync reporting an encoding failure as a write failure.
SyncOneError(d, exists, bytes, w) ==
    LET m == MarshalMap(d)
    IN  IF m.err # Nil
        THEN [err |-> ErrSync, exists |-> exists, bytes |-> bytes]
        ELSE WriteFile(exists, bytes, m.content, w)

\* db.sync(): the mapping is encoded whole and written over the file.
Sync(d, exists, bytes, w) ==
    LET m == MarshalMap(d)
    IN  IF m.err # Nil
        THEN [err |-> ErrJSON, exists |-> exists, bytes |-> bytes]
        ELSE WriteFile(exists, bytes, m.content, w)

\* syncIfNeeded ignoring the options: every mutation is written out.
SyncAlways(o, d, exists, bytes, w) == Sync(d, exists, bytes, w)

\* syncIfNeeded with the test of the options inverted.
SyncInverted(o, d, exists, bytes, w) ==
    IF OptSync \notin o THEN Sync(d, exists, bytes, w)
    ELSE [err |-> Nil, exists |-> exists, bytes |-> bytes]

\* db.syncIfNeeded().
SyncIfNeeded(o, d, exists, bytes, w) ==
    IF OptSync \in o THEN Sync(d, exists, bytes, w)
    ELSE [err |-> Nil, exists |-> exists, bytes |-> bytes]

\* db.data[key] = raw.
Store(d, key, raw) ==
    [k \in DOMAIN d \cup {key} |-> IF k = key THEN raw ELSE d[k]]

\* Delete clearing the whole map instead of one entry.
RemoveAll(d, key) == NoData

\* delete(db.data, key).
Remove(d, key) == [k \in DOMAIN d \ {key} |-> d[k]]

\* The lookup with its ok result ignored: a missing key reads as nil bytes.
LookupUnchecked(d, key) ==
    [ok |-> TRUE, raw |-> IF key \in DOMAIN d THEN d[key] ELSE NilRaw]

\* raw, ok := db.data[key].
Lookup(d, key) ==
    IF key \in DOMAIN d THEN [ok |-> TRUE, raw |-> d[key]]
    ELSE [ok |-> FALSE, raw |-> NilRaw]

\* Open with the codec's error ignored.
OpenNeverRejects(doc) == FALSE

\* if err := sonic.Unmarshal(content, &data); err != nil.
OpenRejects(doc) == ~doc.ok

\* Open forgetting to write the empty document.
BootstrapSkipped(bytes) == bytes

\* What the file holds once Open has found it blank: the two bytes are
\* written where ReadAll left the offset, after the blanks.
Bootstrap(bytes) == bytes \o <<"{", "}">>

Open(o, fault) ==
    LET created == IF fileExists THEN file ELSE <<>>
        blank == IsBlank(created)
        content == IF blank THEN <<"{", "}">> ELSE created
    IN
    \E doc \in {ParseDoc(content)} :
    LET err == CASE fault = "open" -> ErrOpenFile
                 [] fault = "abs" -> ErrAbs
                 [] fault = "read" -> ErrRead
                 [] fault = "write" /\ blank -> ErrWriteNew
                 [] OpenRejects(doc) -> ErrContent
                 [] OTHER -> Nil
    IN  /\ fileExists' = (fileExists \/ fault # "open")
        /\ file' = IF blank /\ fault = "none" THEN Bootstrap(created) ELSE created
        /\ opened' = (err = Nil)
        /\ opts' = IF err = Nil THEN o ELSE {}
        /\ data' = IF err = Nil THEN doc.data ELSE NoData
        /\ hist' = [k \in Keys |->
                      IF err = Nil /\ k \in DOMAIN doc.data
                      THEN Hist(IF last.op = "Save" /\ last.err = Nil
                                THEN "saved" ELSE "loaded", Null)
                      ELSE Untouched]
        /\ last' = Result("Open", NoKey, err)
        /\ UNCHANGED cvars

Save(w) ==
    /\ opened
    /\ \E r \in {Sync(data, fileExists, file, w)} :
           /\ fileExists' = r.exists
           /\ file' = r.bytes
           /\ last' = Result("Save", NoKey, r.err)
    /\ UNCHANGED <<opened, opts, data, hist, cvars>>

\* Set with the encoder's error ignored.
SetNeverFails(enc) == FALSE

\* raw, err := sonic.Marshal(val); if err != nil.
SetFails(enc) == enc.err # Nil

Set(key, val, w) ==
    /\ opened
    /\ \E enc \in {Marshal(val)} :
       \E d \in {Store(data, key, enc.raw)} :
       \E r \in {SyncIfNeeded(opts, d, fileExists, file, w)} :
           IF SetFails(enc)
           THEN /\ last' = [Result("Set", key, ErrJSON) EXCEPT !.pre = val]
                /\ UNCHANGED <<data, fileExists, file, hist>>
           ELSE /\ data' = d
                /\ fileExists' = r.exists
                /\ file' = r.bytes
                /\ hist' = [hist EXCEPT ![key] =
                              Hist(IF r.err = Nil THEN "set" ELSE "setfailed", val)]
                /\ last' = [Result("Set", key, r.err) EXCEPT !.pre = val]
    /\ UNCHANGED <<opened, opts, cvars>>

SetRaw(key, raw, w) ==
    /\ opened
    /\ \E d \in {Store(data, key, raw)} :
       \E r \in {SyncIfNeeded(opts, d, fileExists, file, w)} :
           /\ data' = d
           /\ fileExists' = r.exists
           /\ file' = r.bytes
           /\ hist' = [hist EXCEPT ![key] = Hist("raw", Null)]
           /\ last' = Result("SetRaw", key, r.err)
    /\ UNCHANGED <<opened, opts, cvars>>

Get(key, dst) ==
    /\ opened
    /\ \E l \in {Lookup(data, key)} :
       \E u \in {Unmarshal(l.raw, dst)} :
           last' = [op |-> "Get", key |-> key,
                    err |-> IF ~l.ok THEN ErrNotFound ELSE u.err,
                    pre |-> dst,
                    out |-> IF ~l.ok THEN dst ELSE u.val,
                    raw |-> NilRaw, seen |-> <<>>, stop |-> {}]
    /\ UNCHANGED <<opened, opts, data, fileExists, file, hist, cvars>>

GetRaw(key) ==
    /\ opened
    /\ LET l == Lookup(data, key)
       IN  last' = [Result("GetRaw", key, IF l.ok THEN Nil ELSE ErrNotFound)
                      EXCEPT !.raw = l.raw]
    /\ UNCHANGED <<opened, opts, data, fileExists, file, hist, cvars>>

Delete(key, w) ==
    /\ opened
    /\ \E d \in {Remove(data, key)} :
       \E r \in {SyncIfNeeded(opts, d, fileExists, file, w)} :
           /\ data' = d
           /\ fileExists' = r.exists
           /\ file' = r.bytes
           /\ hist' = [hist EXCEPT ![key] = Hist("deleted", Null)]
           /\ last' = Result("Delete", key, r.err)
    /\ UNCHANGED <<opened, opts, cvars>>

\* The orders in which range can hand out the keys of a map.
Orders(S) ==
    {o \in [1..Cardinality(S) -> S] : \A i, j \in 1..Cardinality(S) : o[i] = o[j] => i = j}

RECURSIVE WalkAll(_, _, _)
\* The loop with continue in place of break.
WalkAll(order, i, stop) ==
    IF i > Len(order) THEN <<>>
    ELSE <<order[i]>> \o WalkAll(order, i + 1, stop)

RECURSIVE Walk(_, _, _)
\* for k, v := range db.data { if err := fn(k, v); err != nil { break } }:
\* the keys handed to fn from the i-th of order on.
Walk(order, i, stop) ==
    IF i > Len(order) THEN <<>>
    ELSE IF order[i] \in stop THEN <<order[i]>>
    ELSE <<order[i]>> \o Walk(order, i + 1, stop)

Iter(order, stop) ==
    /\ opened
    /\ last' = [Result("Iter", NoKey, Nil)
                 EXCEPT !.seen = Walk(order, 1, stop), !.stop = stop]
    /\ UNCHANGED <<opened, opts, data, fileExists, file, hist, cvars>>

Next ==
    \/ \E o \in OptSets, fault \in OpenFaults : Open(o, fault)
    \/ \E w \in WriteOutcomes : Save(w)
    \/ \E k \in Keys, v \in SetValues, w \in OutcomesFor(opts) : Set(k, v, w)
    \/ \E k \in Keys, r \in RawInputs, w \in OutcomesFor(opts) : SetRaw(k, r, w)
    \/ \E k \in Keys, d \in Dests : Get(k, d)
    \/ \E k \in Keys : GetRaw(k)
    \/ \E k \in Keys, w \in OutcomesFor(opts) : Delete(k, w)
    \/ \E order \in Orders(DOMAIN data), stop \in SUBSET Keys : Iter(order, stop)

Spec == Init /\ [][Next]_vars

\* ---------------------------------------------------------------------
\* Several threads calling into one open DB. Every call is cut into the
\* steps at which another thread can see or change db.data, the file or
\* db.mu: taking the lock, the map access, the sync, releasing the lock.

\* What the threads call: one key, a value that encodes, one that does not,
\* a payload that is not JSON.
CKey == <<"a">>
CSetValues == {Num(1), Chan}
CRawInput == <<"x">>
Writers == {"Set", "SetRaw", "Delete", "Save"}
Readers == {"Get", "GetRaw"}
Visitors == {"none", "Get"} \cup Writers

\* db.mu.RLock() with a reader let in past a writer that waits for the lock.
CanRLockPastWaiter(m) == ~m.held

\* db.mu.RLock() that never waits.
CanRLockAlways(m) == TRUE

\* db.mu.RLock(): readerCount is negative from the moment a writer has
\* announced itself, and a new reader then waits for that writer's Unlock.
CanRLock(m) == m.w = NoThread

\* db.mu.Lock(), first half: the writers' inner mutex.
CanAnnounce(m) == m.w = NoThread

\* db.mu.Lock() that does not wait for the readers to leave.
CanEnterPastReaders(m, t) == m.w = t

\* db.mu.Lock() that counts the caller's own read lock as no lock.
CanEnterOwnRead(m, t) == m.w = t /\ \A u \in Threads \ {t} : m.r[u] = 0

\* db.mu.Lock(), second half: wait until every read lock is released.
CanEnter(m, t) == m.w = t /\ \A u \in Threads : m.r[u] = 0

\* val, ok := db.data[key] as a concurrent reader sees it: the entry or its
\* absence, or anything at all while another thread is changing the map.
Obs(d, key) == IF Lookup(d, key).ok THEN Lookup(d, key).raw ELSE Absent
Observe(d, key, wr) == IF wr = {} THEN {Obs(d, key)} ELSE {Obs(d, key), Torn}

\* The calls a thread can make.
Call(op, key, val, arg, vis) ==
    [op |-> op, key |-> key, val |-> val, arg |-> arg, vis |-> vis]
Calls ==
    {Call("Set", CKey, v, NilRaw, "none") : v \in CSetValues}
        \cup {Call("SetRaw", CKey, Null, CRawInput, "none"),
              Call("Delete", CKey, Null, NilRaw, "none"),
              Call("Save", NoKey, Null, NilRaw, "none"),
              Call("Get", CKey, Null, NilRaw, "none"),
              Call("GetRaw", CKey, Null, NilRaw, "none")}
        \cup {Call("Iter", NoKey, Null, NilRaw, v) : v \in Visitors}

\* The call fn(k, v) makes when it calls back into the DB.
VisitorCall(vis, k) ==
    CASE vis = "Set" -> Call("Set", k, Num(1), NilRaw, vis)
      [] vis = "SetRaw" -> Call("SetRaw", k, Null, CRawInput, vis)
      [] vis = "Delete" -> Call("Delete", k, Null, NilRaw, vis)
      [] vis = "Save" -> Call("Save", NoKey, Null, NilRaw, vis)
      [] OTHER -> Call("Get", k, Null, NilRaw, vis)

\* A thread at the first line of a call: db.mu.Lock() or db.mu.RLock().
\* cands collects what the key holds from here on, one entry per change.
Begin(c, from, d) ==
    [from EXCEPT !.op = c.op, !.key = c.key, !.val = c.val, !.arg = c.arg,
                 !.vis = c.vis,
                 !.pc = IF c.op \in Writers THEN "lock" ELSE "rlock",
                 !.got = NoObs, !.err = Nil,
                 !.cands = IF c.op \in Readers THEN {Obs(d, c.key)} ELSE {}]

Invoke(t, c) ==
    /\ opened
    /\ th[t].pc = "idle"
    /\ th' = [th EXCEPT ![t] = Begin(c, IdleThread, data)]
    /\ UNCHANGED <<opened, opts, data, fileExists, file, last, hist, mu, writing>>

\* db.mu.Lock() up to the point where the writer waits for the readers.
Announce(t) ==
    /\ th[t].pc = "lock"
    /\ CanAnnounce(mu)
    /\ mu' = [mu EXCEPT !.w = t]
    /\ th' = [th EXCEPT ![t].pc = "drain"]
    /\ UNCHANGED <<opened, opts, data, fileExists, file, last, hist, writing>>

\* db.mu.Lock() returns.
Enter(t) ==
    /\ th[t].pc = "drain"
    /\ CanEnter(mu, t)
    /\ mu' = [mu EXCEPT !.held = TRUE]
    /\ th' = [th EXCEPT ![t].pc = CASE th[t].op = "Set" -> "encode"
                                    [] th[t].op = "Save" -> "sync"
                                    [] OTHER -> "store"]
    /\ UNCHANGED <<opened, opts, data, fileExists, file, last, hist, writing>>

\* Set: raw, err := sonic.Marshal(val).
Encode(t) ==
    /\ th[t].pc = "encode"
    /\ \E enc \in {Marshal(th[t].val)} :
           th' = [th EXCEPT ![t] =
                    IF SetFails(enc)
                    THEN [th[t] EXCEPT !.err = ErrJSON, !.pc = "unlock"]
                    ELSE [th[t] EXCEPT !.arg = enc.raw, !.pc = "store"]]
    /\ UNCHANGED <<opened, opts, data, fileExists, file, last, hist, mu, writing>>

\* db.data[key] = raw, or delete(db.data, key), begins.
StoreBegin(t) ==
    /\ th[t].pc = "store"
    /\ writing' = writing \cup {t}
    /\ th' = [th EXCEPT ![t].pc = "storing"]
    /\ UNCHANGED <<opened, opts, data, fileExists, file, last, hist, mu>>

\* The map write is done; every read call in flight that has not looked yet
\* may now see the new entry.
StoreEnd(t) ==
    /\ th[t].pc = "storing"
    /\ \E d \in {IF th[t].op = "Delete" THEN Remove(data, th[t].key)
                 ELSE Store(data, th[t].key, th[t].arg)} :
           /\ data' = d
           /\ th' = [u \in Threads |->
                       IF u = t
                       THEN [th[t] EXCEPT !.pc = IF OptSync \in opts
                                                 THEN "sync" ELSE "unlock"]
                       ELSE IF th[u].op \in Readers /\ th[u].got = NoObs
                                 /\ th[u].key = th[t].key
                            THEN [th[u] EXCEPT !.cands = @ \cup {Obs(d, th[t].key)}]
                            ELSE th[u]]
    /\ writing' = writing \ {t}
    /\ UNCHANGED <<opened, opts, fileExists, file, last, hist, mu>>

\* db.sync() of Save, or of syncIfNeeded under OptSync.
SyncStep(t) ==
    /\ th[t].pc = "sync"
    /\ \E r \in {Sync(data, fileExists, file, "written")} :
           /\ fileExists' = r.exists
           /\ file' = r.bytes
           /\ th' = [th EXCEPT ![t].err = r.err, ![t].pc = "unlock"]
    /\ UNCHANGED <<opened, opts, data, last, hist, mu, writing>>

\* defer db.mu.Unlock().
Unlock(t) ==
    /\ th[t].pc = "unlock"
    /\ mu' = [mu EXCEPT !.w = NoThread, !.held = FALSE]
    /\ th' = [th EXCEPT ![t].pc = "ret"]
    /\ UNCHANGED <<opened, opts, data, fileExists, file, last, hist, writing>>

\* db.mu.RLock() returns; Iter starts its range over db.data.
RLock(t) ==
    /\ th[t].pc = "rlock"
    /\ CanRLock(mu)
    /\ mu' = [mu EXCEPT !.r[t] = @ + 1]
    /\ \E order \in Orders(DOMAIN data) :
           th' = [th EXCEPT ![t] =
                    IF th[t].op = "Iter"
                    THEN [th[t] EXCEPT !.pc = "visit", !.todo = order]
                    ELSE [th[t] EXCEPT !.pc = "read"]]
    /\ UNCHANGED <<opened, opts, data, fileExists, file, last, hist, writing>>

\* Get and GetRaw: val, ok := db.data[key], and Get's sonic.Unmarshal.
ReadStep(t) ==
    /\ th[t].pc = "read"
    /\ \E o \in Observe(data, th[t].key, writing) :
           th' = [th EXCEPT ![t] =
                    [th[t] EXCEPT
                       !.got = o,
                       !.err = IF o = Absent THEN ErrNotFound
                               ELSE IF th[t].op = "Get" /\ o # Torn
                               THEN Unmarshal(o, th[t].val).err
                               ELSE Nil,
                       !.pc = "runlock"]]
    /\ UNCHANGED <<opened, opts, data, fileExists, file, last, hist, mu, writing>>

\* Iter: one round of the range loop, fn(k, v) with v read from the map;
\* a visitor that calls back into the DB starts that call on this thread.
Visit(t) ==
    /\ th[t].pc = "visit"
    /\ th[t].todo # <<>>
    /\ \E o \in Observe(data, Head(th[t].todo), writing) :
           th' = [th EXCEPT ![t] =
                    IF th[t].vis = "none"
                    THEN [th[t] EXCEPT !.vgot = o, !.todo = Tail(@)]
                    ELSE Begin(VisitorCall(th[t].vis, Head(th[t].todo)),
                               [th[t] EXCEPT !.vgot = o, !.iter = TRUE], data)]
    /\ UNCHANGED <<opened, opts, data, fileExists, file, last, hist, mu, writing>>

\* Iter: the range is over.
VisitDone(t) ==
    /\ th[t].pc = "visit"
    /\ th[t].todo = <<>>
    /\ th' = [th EXCEPT ![t].pc = "runlock"]
    /\ UNCHANGED <<opened, opts, data, fileExists, file, last, hist, mu, writing>>

\* defer db.mu.RUnlock().
RUnlock(t) ==
    /\ th[t].pc = "runlock"
    /\ mu' = [mu EXCEPT !.r[t] = @ - 1]
    /\ th' = [th EXCEPT ![t].pc = "ret", ![t].vgot =
                IF th[t].op = "Iter" THEN NoObs ELSE @]
    /\ UNCHANGED <<opened, opts, data, fileExists, file, last, hist, writing>>

\* The call returns: to the caller, or to the range loop of the Iter whose
\* visitor made it.
Return(t) ==
    /\ th[t].pc = "ret"
    /\ th' = [th EXCEPT ![t] =
                IF th[t].iter
                THEN [th[t] EXCEPT !.op = "Iter", !.key = NoKey, !.val = Null,
                                   !.arg = NilRaw, !.pc = "visit",
                                   !.got = NoObs, !.err = Nil, !.cands = {},
                                   !.iter = FALSE, !.todo = Tail(@)]
                ELSE IdleThread]
    /\ UNCHANGED <<opened, opts, data, fileExists, file, last, hist, mu, writing>>

\* An open DB over the file of its one entry, with or without OptSync.
InitC ==
    /\ opened = TRUE
    /\ opts \in OptSets
    /\ data = Store(NoData, CKey, <<"1">>)
    /\ fileExists = TRUE
    /\ file = MarshalMap(Store(NoData, CKey, <<"1">>)).content
    /\ last = Result("Open", NoKey, Nil)
    /\ hist = [k \in Keys |-> Untouched]
    /\ th = [t \in Threads |-> IdleThread]
    /\ mu = FreeMu
    /\ writing = {}

NextC ==
    \E t \in Threads :
        \/ \E c \in Calls : Invoke(t, c)
        \/ Announce(t)
        \/ Enter(t)
        \/ Encode(t)
        \/ StoreBegin(t)
        \/ StoreEnd(t)
        \/ SyncStep(t)
        \/ Unlock(t)
        \/ RLock(t)
        \/ ReadStep(t)
        \/ Visit(t)
        \/ VisitDone(t)
        \/ RUnlock(t)
        \/ Return(t)

SpecC == InitC /\ [][NextC]_vars

\* ------------------------------------------------------------- properties
Mutators == {"Set", "SetRaw", "Delete"}
Reads == {"Get", "GetRaw"}
OpenIOErrors == {ErrOpenFile, ErrAbs, ErrRead, ErrWriteNew}
OtherKey(k) == CHOOSE k2 \in Keys : k2 # k

\* C1: a Get of a key whose last change was a successful Set(k, v), whatever
\* was done to other keys, read or saved since, returns no error and leaves
\* v in the destination.
C1_RoundTrip ==
    (last.op = "Get" /\ hist[last.key].m = "set")
        => (last.err = Nil /\ last.out = hist[last.key].v)

\* A Get that read back a string over a destination holding something else,
\* after the other key had been deleted.
C1_Witness ==
    /\ last.op = "Get"
    /\ hist[last.key].m = "set"
    /\ hist[last.key].v = Str(<<"<">>)
    /\ last.out = Str(<<"<">>)
    /\ last.pre # last.out
    /\ hist[OtherKey(last.key)].m = "deleted"

\* C2: after a Save that returned no error the file holds exactly the
\* encoding of the mapping, so it decodes to the mapping's keys and no others.
C2_SaveOverwrites ==
    (last.op = "Save" /\ last.err = Nil)
        => /\ fileExists
           /\ MarshalMap(data).err = Nil
           /\ file = MarshalMap(data).content
           /\ ParseDoc(file).ok
           /\ DOMAIN ParseDoc(file).data = DOMAIN data

\* A successful Save of a mapping that holds one key and has lost the other.
C2_Witness ==
    /\ last.op = "Save"
    /\ last.err = Nil
    /\ \E k \in Keys :
         /\ k \in DOMAIN data
         /\ hist[OtherKey(k)].m = "deleted"

\* An Open that follows a successful Save directly and meets no I/O failure.
ReopenAfterSave ==
    /\ last.op = "Save"
    /\ last.err = Nil
    /\ last'.op = "Open"
    /\ last'.err \notin OpenIOErrors

\* C3 as stated: the Store opened right after a successful Save holds the
\* very mapping that was saved.
C3_ReopenEqual ==
    [][ReopenAfterSave => (last'.err = Nil /\ data' = data)]_vars

\* C3 amended: the Store opened right after a successful Save has the same
\* keys; each payload is the form in which json.Marshal wrote it (blanks
\* dropped, '<' escaped, nil as null); a payload that was not nil decodes to
\* the value it decoded to before, and a key last written by Set(k, v)
\* decodes to v.
C3_ReopenCompacted ==
    [][ReopenAfterSave =>
         /\ last'.err = Nil
         /\ DOMAIN data' = DOMAIN data
         /\ \A k \in DOMAIN data :
              /\ data'[k] = IF data[k] = NilRaw THEN NullLit ELSE Compact(data[k])
              /\ data[k] # NilRaw
                   => Unmarshal(data'[k], Null) = Unmarshal(data[k], Null)
              /\ hist[k].m \in {"set", "setfailed"}
                   => Unmarshal(data'[k], Null) = [err |-> Nil, val |-> hist[k].v]
       ]_vars

\* A Store opened right after a Save, holding the saved number and string.
C3_Witness ==
    /\ last.op = "Open"
    /\ last.err = Nil
    /\ \E k \in Keys :
         /\ hist[k].m = "saved"
         /\ hist[OtherKey(k)].m = "saved"
         /\ data[k] = <<"1">>
         /\ Unmarshal(data[OtherKey(k)], Null).val = Str(<<"<">>)

\* C4: without OptSync a Set, SetRaw or Delete leaves the file as it was,
\* and a step that changes the file is a Save or an Open.
C4_NoSyncNoWrite ==
    [][OptSync \notin opts =>
         /\ last'.op \in Mutators => (file' = file /\ fileExists' = fileExists)
         /\ (file' # file \/ fileExists' # fileExists) => last'.op \in {"Save", "Open"}
       ]_vars

\* A mutation made without OptSync that the file does not show.
C4_Witness ==
    /\ OptSync \notin opts
    /\ last.op \in Mutators
    /\ last.err = Nil
    /\ MarshalMap(data).err = Nil
    /\ ParseDoc(file).ok
    /\ DOMAIN ParseDoc(file).data # DOMAIN data

\* C5: with OptSync, when a Set, SetRaw or Delete returns no error the file
\* holds the encoding of the mapping, that mutation included.
C5_AutoSync ==
    (OptSync \in opts /\ last.op \in Mutators /\ last.err = Nil)
        => /\ fileExists
           /\ MarshalMap(data).err = Nil
           /\ file = MarshalMap(data).content
           /\ last.op \in {"Set", "SetRaw"} =>
                /\ last.key \in DOMAIN ParseDoc(file).data
                /\ ParseDoc(file).data[last.key] = MarshalRaw(data[last.key]).raw
           /\ last.op = "Delete" => last.key \notin DOMAIN ParseDoc(file).data

\* A Delete under OptSync that left the other key in the mapping and the file.
C5_Witness ==
    /\ OptSync \in opts
    /\ last.op = "Delete"
    /\ last.err = Nil
    /\ hist[OtherKey(last.key)].m = "set"
    /\ OtherKey(last.key) \in DOMAIN ParseDoc(file).data

\* C6 as stated: a Set, SetRaw or Delete that returns an error leaves the
\* mapping as it was before the call.
C6_FailedCallKeepsMapping ==
    [][(last'.op \in Mutators /\ last'.err # Nil) => data' = data]_vars

\* C7: Get and GetRaw of a key never set, or last deleted, return
\* ErrNotFound; Get leaves the destination as it was, GetRaw returns nil, and
\* neither changes the mapping or the file.
C7_NotFound ==
    [][(last'.op \in Reads /\ hist[last'.key].m \in {"none", "deleted"}) =>
         /\ last'.err = ErrNotFound
         /\ last'.out = last'.pre
         /\ last'.raw = NilRaw
         /\ data' = data
         /\ file' = file
         /\ fileExists' = fileExists
       ]_vars

\* A Get of a deleted key into a destination that held a value.
C7_Witness ==
    /\ last.op = "Get"
    /\ hist[last.key].m = "deleted"
    /\ last.err = ErrNotFound
    /\ last.pre = Str(<<"x">>)
    /\ last.out = last.pre

\* C8 as stated: Delete returns no error unless the file write fails, leaves
\* the mapping as it was when the key was absent, and the key is not found
\* afterwards.
C8_DeleteIdempotent ==
    [][last'.op = "Delete" =>
         /\ last'.err \in {Nil, ErrSync}
         /\ last'.key \notin DOMAIN data => data' = data
         /\ ~Lookup(data', last'.key).ok
       ]_vars

\* C9 as stated: the mapping of an open Store can always be encoded whole,
\* so Save never fails with ErrJSON.
C9_MappingEncodable ==
    /\ opened => MarshalMap(data).err = Nil
    /\ last.op = "Save" => last.err # ErrJSON

\* C10 as stated: the only error SetRaw returns is ErrSync.
C10_SetRawNoCodecError ==
    last.op = "SetRaw" => last.err \in {Nil, ErrSync}

\* C11: a Set whose value cannot be encoded returns ErrJSON, leaves the
\* mapping as it was (an entry under the key keeps its payload) and leaves
\* the file alone, with or without OptSync.
C11_SetEncodeFailure ==
    [][(last'.op = "Set" /\ Marshal(last'.pre).err # Nil) =>
         /\ last'.err = ErrJSON
         /\ data' = data
         /\ file' = file
         /\ fileExists' = fileExists
       ]_vars

\* A failed Set under OptSync on a key that holds a payload, with the file
\* still the encoding of the mapping.
C11_Witness ==
    /\ last.op = "Set"
    /\ last.pre = Chan
    /\ last.err = ErrJSON
    /\ OptSync \in opts
    /\ last.key \in DOMAIN data
    /\ data[last.key] = <<"1">>
    /\ file = MarshalMap(data).content

\* An Open that meets no I/O failure and finds no file, or a blank one.
OpenOnBlank ==
    /\ last'.op = "Open"
    /\ last'.err \notin OpenIOErrors
    /\ ~fileExists \/ IsBlank(file)

OpenOnGarbage ==
    /\ last'.op = "Open"
    /\ last'.err \notin OpenIOErrors
    /\ fileExists
    /\ ~IsBlank(file)
    /\ ~ParseDoc(file).ok

\* C14: Open on content that is not blank and does not decode fails with
\* the content error, yields no Store and no entries, and leaves the file as
\* it was.
C14_OpenRejectsGarbage ==
    [][OpenOnGarbage =>
         /\ last'.err = ErrContent
         /\ ~opened'
         /\ data' = NoData
         /\ file' = file
         /\ fileExists'
       ]_vars

\* A failed Open on a document cut short after a member that could be read.
C14_Witness ==
    /\ last.op = "Open"
    /\ last.err = ErrContent
    /\ ~opened
    /\ file = <<"{", Quote, "a", Quote, ":", "1", ",">>

Range(s) == {s[i] : i \in 1..Len(s)}

\* C15: Iter hands each entry of the mapping to the visitor at most once;
\* all of them when the visitor never returns an error; none after the first
\* error; it returns normally and changes neither mapping nor file.
C15_IterVisits ==
    [][last'.op = "Iter" =>
         /\ last'.err = Nil
         /\ Range(last'.seen) \subseteq DOMAIN data
         /\ Cardinality(Range(last'.seen)) = Len(last'.seen)
         /\ last'.stop \cap DOMAIN data = {} => Range(last'.seen) = DOMAIN data
         /\ \A i \in 1..Len(last'.seen) :
              last'.seen[i] \in last'.stop => i = Len(last'.seen)
         /\ (last'.seen # <<>> /\ last'.seen[Len(last'.seen)] \notin last'.stop)
              => Range(last'.seen) = DOMAIN data
         /\ data' = data
         /\ file' = file
         /\ fileExists' = fileExists
       ]_vars

\* An Iter over two entries that stopped at the first.
C15_Witness ==
    /\ last.op = "Iter"
    /\ Cardinality(DOMAIN data) = 2
    /\ Len(last.seen) = 1
    /\ last.seen[1] \in last.stop

\* C16: Save leaves the mapping as it was whatever it returns; it returns
\* ErrJSON exactly when the mapping cannot be encoded, and ErrSync only when
\* the mapping was encoded and the write failed.
C16_SaveKeepsMapping ==
    [][last'.op = "Save" =>
         /\ data' = data
         /\ last'.err \in {Nil, ErrJSON, ErrSync}
         /\ last'.err = ErrJSON <=> MarshalMap(data).err # Nil
         /\ last'.err = ErrJSON => (file' = file /\ fileExists' = fileExists)
         /\ last'.err = ErrSync => MarshalMap(data).err = Nil
       ]_vars

\* A Save whose write failed after truncating the file, the mapping intact.
C16_Witness ==
    /\ last.op = "Save"
    /\ last.err = ErrSync
    /\ data # NoData
    /\ file = <<>>

\* ---------------------------------------------------------------------
\* Threads and their critical sections, by where each thread is in its code.
InWriteCS(t) ==
    /\ th[t].op \in Writers
    /\ th[t].pc \in {"encode", "store", "storing", "sync", "unlock"}
InReadCS(t) ==
    \/ th[t].op \in Readers \cup {"Iter"} /\ th[t].pc \in {"read", "visit", "runlock"}
    \/ th[t].iter
Returned(t) == th[t].pc = "idle" \/ (th[t].pc = "ret" /\ ~th[t].iter)

\* C12: a Get or GetRaw never sees a half-made change of the map: what it
\* read is the entry (or its absence) as it stood when the call began or as
\* one mutation that finished during the call left it, and its error is the
\* one that entry gives; what Iter hands its visitor is the entry as the map
\* holds it for as long as Iter is running its loop.
C12_NoTornReads ==
    \A t \in Threads :
        /\ th[t].got # NoObs =>
             /\ th[t].got # Torn
             /\ th[t].got \in th[t].cands
             /\ th[t].err = IF th[t].got = Absent THEN ErrNotFound
                            ELSE IF th[t].op = "Get"
                            THEN Unmarshal(th[t].got, Null).err
                            ELSE Nil
        /\ th[t].vgot # NoObs =>
             /\ th[t].vgot # Torn
             /\ th[t].vgot = Obs(data, CKey)

\* A Get that began before a mutation of its key, and read what the mutation
\* left, while the mutating call has not returned yet.
C12_Witness ==
    \E t \in Threads : \E u \in Threads \ {t} :
        /\ th[t].op = "Get"
        /\ th[t].got # NoObs
        /\ th[t].cands = {<<"1">>, Absent}
        /\ th[t].got = Absent
        /\ th[u].op = "Delete"
        /\ th[u].pc = "ret"

\* C17: once the visitor of an Iter has called Set, SetRaw, Delete or Save,
\* that call stays before its critical section for ever: it never gets the
\* exclusive lock, Iter keeps its read lock and does not return.
C17_VisitorMutatorDeadlocks ==
    [][\A t \in Threads :
         (th[t].iter /\ th[t].op \in Writers) =>
             /\ th'[t].iter
             /\ th'[t].op = th[t].op
             /\ th'[t].pc \in {"lock", "drain"}
             /\ mu'.r[t] = 1
             /\ ~(mu'.held /\ mu'.w = t)
      ]_vars

\* A visitor's Delete that has announced itself and waits for the read
\* lock of its own Iter to be released.
C17_Witness ==
    \E t \in Threads :
        /\ th[t].iter
        /\ th[t].op = "Delete"
        /\ th[t].pc = "drain"
        /\ mu.w = t
        /\ mu.r[t] = 1
        /\ \A u \in Threads \ {t} : mu.r[u] = 0

\* C18: at most one Set, SetRaw, Delete or Save is inside its critical
\* section, and then no Get, GetRaw or Iter is inside its own; a call that
\* has returned, with or without an error, holds no lock.
C18_LockDiscipline ==
    /\ \A t \in Threads : \A u \in Threads \ {t} :
           InWriteCS(t) => (~InWriteCS(u) /\ ~InReadCS(u))
    /\ \A t \in Threads : InWriteCS(t) => ~InReadCS(t)
    /\ \A t \in Threads : Returned(t) => (mu.r[t] = 0 /\ mu.w # t)
    /\ \A t \in Threads : (th[t].pc = "ret" /\ th[t].iter) => (mu.r[t] = 1 /\ mu.w # t)

\* Two threads inside the critical sections of a Get and an Iter at once.
C18_Witness ==
    \E t \in Threads : \E u \in Threads \ {t} :
        /\ th[t].op = "Get"
        /\ th[t].pc = "read"
        /\ th[u].op = "Iter"
        /\ th[u].pc = "visit"
        /\ mu.r[t] = 1
        /\ mu.r[u] = 1

\* C19 as stated: under OptSync, with every file write succeeding, when no
\* call is in progress the file holds the encoding of the mapping.
C19_FileFollowsMapping ==
    (OptSync \in opts /\ \A t \in Threads : th[t].pc = "idle")
        => /\ MarshalMap(data).err = Nil
           /\ file = MarshalMap(data).content

\* An Iter in its loop, the Get of its visitor waiting for the read lock,
\* and a writer of the other thread waiting for Iter's read lock.
Stuck(t, u) ==
    /\ th[t].iter
    /\ th[t].op = "Get"
    /\ th[t].pc = "rlock"
    /\ mu.r[t] = 1
    /\ th[u].op \in Writers
    /\ th[u].pc = "drain"
    /\ mu.w = u
    /\ ~mu.held

\* C20: when a writer has asked for the lock after an Iter took its read
\* lock and before the visitor's Get took its own, no thread takes a step
\* any more: the Get, the Iter and the writer wait for ever.
C20_VisitorReadDeadlocks ==
    [][\A t \in Threads : \A u \in Threads \ {t} :
         Stuck(t, u) => (th' = th /\ mu' = mu)
      ]_vars

\* Such a state, with a Save as the writer.
C20_Witness ==
    \E t \in Threads : \E u \in Threads \ {t} :
        /\ Stuck(t, u)
        /\ th[u].op = "Save"
        /\ ~th[u].iter

====
